---- MODULE Spec2Model ----
(***************************************************************************)
(* A model of anny's feed-forward network: Layer (src/unnamed/part_000),   *)
(* Network (src/src/Network.js) and the integer-exact functions of the     *)
(* activation catalog (src/lib/ACTIVATION.js).  Neuron, Connection, the    *)
(* error catalog, the weight initializer and Layer's backprop /            *)
(* accumulateGradients / updateWeights are not among the source files;     *)
(* they follow sections 4.2 - 4.6 of the design specification.             *)
(*                                                                         *)
(* Numbers are integers: inputs, targets and initial weights are drawn     *)
(* from small integer sets and the learning rate is 1, so every value the  *)
(* network computes is exact.  The mean squared error is kept as a         *)
(* fraction.                                                               *)
(***************************************************************************)
EXTENDS Integers, Sequences, FiniteSets, TLC

\* ---------------------------------------------------------------- bounds
\* Layer instances the caller creates.
MaxLayerObjs == 4
\* The numNeurons argument of new Layer(numNeurons, addBias).
MaxNeurons == 2
\* Length of the layers array handed to new Network(layers).
MaxLayers == 4
\* Connections in the heap.
MaxConns == 3
\* Magnitude of the numbers in the heap: a call whose results exceed it is
\* not made.
MaxAbs == 20
\* Layer instances and array length in the construction specification.
MaxCtorLayerObjs == 2
MaxCtorArray == 3
\* Calls of activate / backprop / accumulateGradients / updateWeights.
MaxOps == 4
\* Networks constructed in the construction specification.
MaxNetworks == 2
\* Examples of one mini-batch in the batch specification.
MaxBatch == 2

\* What INITIALIZE.weight may return, and the numbers the caller passes.
Weights == {-1, 1}
InputVals == {0, 1}
TargetVals == {0, 1}
\* The integer-exact entries of the activation catalog.
ActivationNames == {"identity", "ramp", "step"}

VARIABLES
  activation,  \* the activation function of the Neurons
  layers,      \* the Layer objects: layers[l].neurons[i] is a Neuron
  conns,       \* the Connection objects, in creation order
  net,         \* the Network object constructed last
  twin,        \* a second copy of the same network, trained per example
  gsum,        \* per connection: sum of source activation * target delta
  w0,          \* per connection: weight when the current batch began
  prevAct,     \* the last activate call since the weights last changed
  calls,       \* how many calls each kind of operation has had
  last         \* the last call: its arguments, outcome and call log

vars == <<activation, layers, conns, net, twin, gsum, w0, prevAct, calls, last>>

\* An optional value: undefined, or a value.
Undefined == <<>>
Def(x) == <<x>>
IsDef(o) == Len(o) > 0

\* ------------------------------------------------------------ activation
\* ACTIVATION.identity
identity(x) == x

\* ACTIVATION.ramp
ramp(x) == IF x >= 1 THEN 1 ELSE IF x <= -1 THEN -1 ELSE x

\* ACTIVATION.step
step(x) == IF x < 0 THEN 0 ELSE 1

ActivationFn(name, x) ==
  CASE name = "identity" -> identity(x)
    [] name = "ramp" -> ramp(x)
    [] name = "step" -> step(x)

\* The local derivative of the activation function at pre-activation x.
ActivationDerivative(name, x) ==
  CASE name = "identity" -> 1
    [] name = "ramp" -> IF x > -1 /\ x < 1 THEN 1 ELSE 0
    [] name = "step" -> 0

\* ----------------------------------------------------------------- Layer
\* new Neuron()
Neuron(bias) ==
  [isBias |-> bias, activationValue |-> IF bias THEN 1 ELSE 0,
   preActivation |-> 0, delta |-> 0]

\* new Layer(numNeurons, addBias): numNeurons Neurons, then the bias Neuron.
Layer(numNeurons, addBias) ==
  [neurons |-> [i \in 1..numNeurons |-> Neuron(FALSE)]
                 \o (IF addBias THEN <<Neuron(TRUE)>> ELSE <<>>)]

Size(ls, l) == Len(ls[l].neurons)

\* new Connection(source, target, weight), registered as outgoing on the
\* source and as incoming on the target: conns holds each edge once.
Connection(source, target, weight) ==
  [source |-> source, target |-> target, weight |-> weight,
   gradientAccumulator |-> 0]

\* Layer.connect(targetLayer): for every source Neuron of this Layer, in
\* order, one connection to every Neuron of the target Layer, in order; the
\* k-th connection made takes the k-th weight the initializer returns.
LayerConnect(cs, ls, l, t, ws) ==
  LET nt == Size(ls, t)
  IN cs \o [k \in 1..(Size(ls, l) * nt) |->
              Connection(<<l, ((k - 1) \div nt) + 1>>,
                         <<t, ((k - 1) % nt) + 1>>, ws[k])]

\* --------------------------------------------------------------- Network
\* The layers argument: an array of elements, or something else; an element
\* is a Layer (its index in layers) or anything else (id 0).
NotAnArray == [isArray |-> FALSE, elems |-> <<>>]
Array(elems) == [isArray |-> TRUE, elems |-> elems]
LayerRef(l) == [isLayer |-> TRUE, id |-> l]
NotALayer == [isLayer |-> FALSE, id |-> 0]

\* The constructor's two checks: _.isArray(layers), then
\* !_.isEmpty(layers) && _.every(layers, layer => layer instanceof Layer).
ValidLayers(arg) ==
  /\ arg.isArray
  /\ arg.elems # <<>>
  /\ \A i \in 1..Len(arg.elems) : arg.elems[i].isLayer

NoNetwork ==
  [built |-> FALSE, output |-> <<>>, error |-> [num |-> 0, den |-> 1],
   allLayers |-> <<>>, inputLayer |-> 0, hiddenLayers |-> <<>>,
   outputLayer |-> 0]

\* _.each(this.allLayers, (layer, i) => { next = allLayers[i + 1];
\*                                        if (next) layer.connect(next) })
RECURSIVE ConnectLayers(_, _, _, _, _)
ConnectLayers(cs, ls, all, i, ws) ==
  IF i >= Len(all) THEN cs
  ELSE LET k == Size(ls, all[i]) * Size(ls, all[i + 1])
       IN ConnectLayers(LayerConnect(cs, ls, all[i], all[i + 1], SubSeq(ws, 1, k)),
                        ls, all, i + 1, SubSeq(ws, k + 1, Len(ws)))

\* The fields the constructor sets before it connects the layers.
NetworkFields(all) ==
  [built |-> TRUE, output |-> <<>>, error |-> [num |-> 0, den |-> 1],
   allLayers |-> all,
   inputLayer |-> all[1],
   hiddenLayers |-> SubSeq(all, 2, Len(all) - 1),
   outputLayer |-> all[Len(all)]]

\* A buggy constructor: it connects the Layers at the head of the array
\* first and validates the argument afterwards.
RECURSIVE LayerPrefix(_)
LayerPrefix(elems) ==
  IF elems = <<>> \/ ~Head(elems).isLayer THEN <<>>
  ELSE <<Head(elems).id>> \o LayerPrefix(Tail(elems))

NetworkConstructorValidatesLate(cs, ls, arg, ws) ==
  LET all == LayerPrefix(arg.elems)
      connected == ConnectLayers(cs, ls, all, 1, ws)
  IN IF ~ValidLayers(arg)
     THEN [threw |-> TRUE, conns |-> connected, net |-> NoNetwork]
     ELSE [threw |-> FALSE, conns |-> connected, net |-> NetworkFields(all)]

\* new Network(layers): throws before anything is set or connected when the
\* argument is invalid; otherwise sets the fields and connects every layer
\* to the next one.
NetworkConstructor(cs, ls, arg, ws) ==
  IF ~ValidLayers(arg)
  THEN [threw |-> TRUE, conns |-> cs, net |-> NoNetwork]
  ELSE LET all == [i \in 1..Len(arg.elems) |-> arg.elems[i].id]
       IN [threw |-> FALSE,
           conns |-> ConnectLayers(cs, ls, all, 1, ws),
           net |-> NetworkFields(all)]

\* How many times the constructor asks the initializer for a weight.
RECURSIVE NumNewConns(_, _)
NumNewConns(ls, elems) ==
  IF Len(elems) < 2 \/ ~elems[1].isLayer \/ ~elems[2].isLayer THEN 0
  ELSE Size(ls, elems[1].id) * Size(ls, elems[2].id)
         + NumNewConns(ls, Tail(elems))

\* ---------------------------------------------------- Neuron, Connection
\* The heap an operation works on, with the log of the calls it makes and
\* the value the last call returned.  An operation takes the heap h, binds
\* it once as s, and yields the heap it leaves.
Heap == [layers |-> layers, conns |-> conns, net |-> net,
         log |-> <<>>, ret |-> <<>>]

The(S) == CHOOSE r \in S : TRUE

Call(name, l, i, arg) == [call |-> name, layer |-> l, neuron |-> i, arg |-> arg]

Incoming(cs, l, i) == {c \in DOMAIN cs : cs[c].target = <<l, i>>}
Outgoing(cs, l, i) == {c \in DOMAIN cs : cs[c].source = <<l, i>>}

RECURSIVE SumOver(_, _)
SumOver(f, S) ==
  IF S = {} THEN 0
  ELSE LET c == CHOOSE x \in S : TRUE IN f[c] + SumOver(f, S \ {c})

NeuronAt(s, nid) == s.layers[nid[1]].neurons[nid[2]]

\* Neuron.activate(explicitInput?): a bias Neuron stays at 1; a Neuron
\* without incoming connections takes the explicit input when one is given;
\* every other Neuron takes the activation function of the weighted sum of
\* its incoming connections' source values.
NeuronActivate(h, l, i, input) ==
  The({LET n == s.layers[l].neurons[i]
           inc == Incoming(s.conns, l, i)
           sum == SumOver([c \in inc |->
                             NeuronAt(s, s.conns[c].source).activationValue
                               * s.conns[c].weight], inc)
           explicit == inc = {} /\ IsDef(input)
           pre == IF n.isBias THEN n.preActivation
                  ELSE IF explicit THEN input[1] ELSE sum
           val == IF n.isBias THEN 1
                  ELSE IF explicit THEN input[1]
                  ELSE ActivationFn(activation, sum)
       IN [s EXCEPT !.layers[l].neurons[i].activationValue = val,
                    !.layers[l].neurons[i].preActivation = pre,
                    !.log = Append(@, Call("Neuron.activate", l, i, input)),
                    !.ret = Append(@, val)]
       : s \in {h}})

\* Neuron.setOutputDelta: the delta is the value the Layer was handed.
NeuronSetOutputDelta(h, l, i, d) ==
  [h EXCEPT !.layers[l].neurons[i].delta = d,
            !.log = Append(@, Call("Neuron.setOutputDelta", l, i, <<d>>))]

\* Neuron.propagateDelta: the weighted sum of the deltas of the Neurons it
\* feeds, scaled by the local derivative at its pre-activation value.
NeuronPropagateDelta(h, l, i) ==
  The({LET out == Outgoing(s.conns, l, i)
           sum == SumOver([c \in out |->
                             s.conns[c].weight
                               * NeuronAt(s, s.conns[c].target).delta], out)
           d == sum * ActivationDerivative(activation,
                                           s.layers[l].neurons[i].preActivation)
       IN [s EXCEPT !.layers[l].neurons[i].delta = d,
                    !.log = Append(@, Call("Neuron.propagateDelta", l, i, <<>>))]
       : s \in {h}})

\* Connection.accumulateGradient(sourceOutput, targetDelta)
ConnectionAccumulateGradient(h, c) ==
  The({[s EXCEPT !.conns[c].gradientAccumulator =
                     @ + NeuronAt(s, s.conns[c].source).activationValue
                           * NeuronAt(s, s.conns[c].target).delta,
                 !.log = Append(@, Call("Connection.accumulateGradient", 0, 0, <<c>>))]
       : s \in {h}})

\* The learning rate of Connection.applyUpdate.
LearningRate == 1

\* Connection.applyUpdate(learningRate): weight -= learningRate * gradient,
\* then the accumulator is reset.
ConnectionApplyUpdate(h, c) ==
  The({[s EXCEPT !.conns[c].weight =
                     @ - LearningRate * s.conns[c].gradientAccumulator,
                 !.conns[c].gradientAccumulator = 0,
                 !.log = Append(@, Call("Connection.applyUpdate", 0, 0, <<c>>))]
       : s \in {h}})

\* Neuron.accumulateGradients: every outgoing connection, in order.
RECURSIVE NeuronAccumulateFrom(_, _, _, _)
NeuronAccumulateFrom(h, l, i, c) ==
  The({IF c > Len(s.conns) THEN s
       ELSE NeuronAccumulateFrom(
              IF s.conns[c].source = <<l, i>>
              THEN ConnectionAccumulateGradient(s, c) ELSE s, l, i, c + 1)
       : s \in {h}})

\* Neuron.applyWeightUpdates: every outgoing connection, in order.
RECURSIVE NeuronUpdateFrom(_, _, _, _)
NeuronUpdateFrom(h, l, i, c) ==
  The({IF c > Len(s.conns) THEN s
       ELSE NeuronUpdateFrom(
              IF s.conns[c].source = <<l, i>>
              THEN ConnectionApplyUpdate(s, c) ELSE s, l, i, c + 1)
       : s \in {h}})

\* ------------------------------------------------------ Layer operations
\* Layer.activate(values): _.map over this.neurons, each Neuron activated
\* with values[i] when values is given; returns the Neurons' outputs.
RECURSIVE ActivateNeurons(_, _, _, _)
ActivateNeurons(h, l, values, i) ==
  The({IF i > Size(s.layers, l) THEN s
       ELSE ActivateNeurons(
              NeuronActivate(s, l, i,
                             IF IsDef(values) /\ i <= Len(values[1])
                             THEN Def(values[1][i]) ELSE Undefined),
              l, values, i + 1)
       : s \in {h}})

LayerActivate(h, l, values) ==
  ActivateNeurons([h EXCEPT !.log = Append(@, Call("Layer.activate", l, 0, values)),
                            !.ret = <<>>],
                  l, values, 1)

\* Layer.backprop(outputDeltas?): with deltas, each Neuron's delta is set
\* from them; without, each Neuron propagates the deltas of the next Layer.
RECURSIVE BackpropNeurons(_, _, _, _)
BackpropNeurons(h, l, deltas, i) ==
  The({IF i > Size(s.layers, l) THEN s
       ELSE BackpropNeurons(
              IF IsDef(deltas) THEN NeuronSetOutputDelta(s, l, i, deltas[1][i])
              ELSE NeuronPropagateDelta(s, l, i),
              l, deltas, i + 1)
       : s \in {h}})

LayerBackprop(h, l, deltas) ==
  BackpropNeurons([h EXCEPT !.log = Append(@, Call("Layer.backprop", l, 0, deltas))],
                  l, deltas, 1)

\* Layer.accumulateGradients(): fans out to every Neuron.
RECURSIVE AccumulateNeurons(_, _, _)
AccumulateNeurons(h, l, i) ==
  The({IF i > Size(s.layers, l) THEN s
       ELSE AccumulateNeurons(NeuronAccumulateFrom(s, l, i, 1), l, i + 1)
       : s \in {h}})

LayerAccumulateGradients(h, l) ==
  AccumulateNeurons(
    [h EXCEPT !.log = Append(@, Call("Layer.accumulateGradients", l, 0, <<>>))],
    l, 1)

\* Layer.updateWeights(): fans out to every Neuron.
RECURSIVE UpdateNeurons(_, _, _)
UpdateNeurons(h, l, i) ==
  The({IF i > Size(s.layers, l) THEN s
       ELSE UpdateNeurons(NeuronUpdateFrom(s, l, i, 1), l, i + 1)
       : s \in {h}})

LayerUpdateWeights(h, l) ==
  UpdateNeurons(
    [h EXCEPT !.log = Append(@, Call("Layer.updateWeights", l, 0, <<>>))],
    l, 1)

\* ---------------------------------------------------- Network operations
\* _.invoke(this.hiddenLayers, 'activate'): each hidden Layer, in order,
\* with no argument.
RECURSIVE InvokeActivate(_, _, _)
InvokeActivate(h, ls, i) ==
  IF i > Len(ls) THEN h
  ELSE InvokeActivate(LayerActivate(h, ls[i], Undefined), ls, i + 1)

\* A buggy activate: the output is returned but not stored.
NetworkActivateNoStore(h, inputs) ==
  The({LayerActivate(
         InvokeActivate(LayerActivate(s, s.net.inputLayer, Def(inputs)),
                        s.net.hiddenLayers, 1),
         s.net.outputLayer, Undefined)
       : s \in {h}})

\* A buggy activate: the layers are activated back to front.
RECURSIVE InvokeActivateReversed(_, _, _)
InvokeActivateReversed(h, ls, i) ==
  IF i < 1 THEN h
  ELSE InvokeActivateReversed(LayerActivate(h, ls[i], Undefined), ls, i - 1)

NetworkActivateReversed(h, inputs) ==
  The({The({The({[s3 EXCEPT !.net.output = s1.ret, !.ret = s1.ret]
                 : s3 \in {LayerActivate(
                             InvokeActivateReversed(s1, s.net.hiddenLayers,
                                                    Len(s.net.hiddenLayers)),
                             s.net.inputLayer, Def(inputs))}})
            : s1 \in {LayerActivate(s, s.net.outputLayer, Undefined)}})
       : s \in {h}})

\* Network.activate(inputs): the input Layer with the inputs, the hidden
\* Layers in order, then the output Layer, whose result is stored in
\* this.output and returned.
NetworkActivate(h, inputs) ==
  The({The({[s3 EXCEPT !.net.output = s3.ret]
            : s3 \in {LayerActivate(
                        InvokeActivate(LayerActivate(s, s.net.inputLayer, Def(inputs)),
                                       s.net.hiddenLayers, 1),
                        s.net.outputLayer, Undefined)}})
       : s \in {h}})

\* ERROR.meanSquared(target, actual) = (1/n) * sum (actual_i - target_i)^2,
\* as the fraction num / den.
meanSquared(target, actual) ==
  LET n == Len(actual)
      d == [j \in 1..n |-> (actual[j] - target[j]) * (actual[j] - target[j])]
  IN [num |-> SumOver(d, 1..n), den |-> n]

\* for (let i = this.hiddenLayers.length - 1; i >= 0; i -= 1)
\*   this.hiddenLayers[i].backprop()
RECURSIVE BackpropHidden(_, _)
BackpropHidden(h, i) ==
  The({IF i < 1 THEN s
       ELSE BackpropHidden(LayerBackprop(s, s.net.hiddenLayers[i], Undefined), i - 1)
       : s \in {h}})

\* The first statement of Network.backprop: the error.
SetError(s, targetOutput) ==
  [s EXCEPT !.net.error = meanSquared(targetOutput, s.net.output),
            !.log = Append(@, Call("errorFn", 0, 0, <<>>))]

\* The second: the delta vector output[j] - targetOutput[j].
OutputDelta(s, targetOutput) ==
  [j \in 1..Len(s.net.output) |-> s.net.output[j] - targetOutput[j]]

\* A buggy backprop: the hidden Layers first, the output Layer last.
NetworkBackpropOutputLast(h, targetOutput) ==
  The({LayerBackprop(BackpropHidden(SetError(s, targetOutput),
                                    Len(s.net.hiddenLayers)),
                     s.net.outputLayer, Def(OutputDelta(s, targetOutput)))
       : s \in {h}})

\* Network.backprop(targetOutput)
NetworkBackprop(h, targetOutput) ==
  The({BackpropHidden(
         LayerBackprop(SetError(s, targetOutput), s.net.outputLayer,
                       Def(OutputDelta(s, targetOutput))),
         Len(s.net.hiddenLayers))
       : s \in {h}})

RECURSIVE AccumulateHidden(_, _)
AccumulateHidden(h, i) ==
  The({IF i < 1 THEN s
       ELSE AccumulateHidden(LayerAccumulateGradients(s, s.net.hiddenLayers[i]),
                             i - 1)
       : s \in {h}})

RECURSIVE UpdateHidden(_, _)
UpdateHidden(h, i) ==
  The({IF i < 1 THEN s
       ELSE UpdateHidden(LayerUpdateWeights(s, s.net.hiddenLayers[i]), i - 1)
       : s \in {h}})

\* A buggy updateWeights: the loop stops before the first hidden Layer.
RECURSIVE UpdateHiddenButFirst(_, _)
UpdateHiddenButFirst(h, i) ==
  The({IF i <= 1 THEN s
       ELSE UpdateHiddenButFirst(LayerUpdateWeights(s, s.net.hiddenLayers[i]),
                                 i - 1)
       : s \in {h}})

NetworkUpdateWeightsSkipsFirst(h) ==
  The({UpdateHiddenButFirst(LayerUpdateWeights(s, s.net.outputLayer),
                            Len(s.net.hiddenLayers))
       : s \in {h}})

\* Network.updateWeights(): the output Layer, then the hidden Layers from
\* the last to the first.
NetworkUpdateWeights(h) ==
  The({UpdateHidden(LayerUpdateWeights(s, s.net.outputLayer),
                    Len(s.net.hiddenLayers))
       : s \in {h}})

\* A buggy accumulateGradients: it also applies the weight updates.
NetworkAccumulateGradientsAndUpdate(h) ==
  The({NetworkUpdateWeights(
         AccumulateHidden(LayerAccumulateGradients(s, s.net.outputLayer),
                          Len(s.net.hiddenLayers)))
       : s \in {h}})

\* Network.accumulateGradients(): the output Layer, then the hidden Layers
\* from the last to the first.
NetworkAccumulateGradients(h) ==
  The({AccumulateHidden(LayerAccumulateGradients(s, s.net.outputLayer),
                        Len(s.net.hiddenLayers))
       : s \in {h}})

\* ------------------------------------------------------------ the caller
SeqsUpTo(S, n) == UNION {[1..k -> S] : k \in 0..n}

Range(q) == {q[i] : i \in 1..Len(q)}

ArrayOf(ids) ==
  Array([i \in 1..Len(ids) |->
           IF ids[i] = 0 THEN NotALayer ELSE LayerRef(ids[i])])

\* The caller names its k Layers in the order in which the array first
\* mentions them, and the array mentions every one of them.
FirstUseOrdered(ids, k) ==
  /\ \A v \in 1..k : \E j \in 1..Len(ids) : ids[j] = v
  /\ \A i \in 1..Len(ids) : \A v \in 1..(ids[i] - 1) :
       \E j \in 1..(i - 1) : ids[j] = v

\* Arrays of Layers, a Layer possibly at several places.
LayerArrays ==
  {ArrayOf(ids) : ids \in {q \in SeqsUpTo(1..Len(layers), MaxLayers) :
                             Len(q) >= 1 /\ FirstUseOrdered(q, Len(layers))}}

\* Any argument: not an array, the empty array, arrays with other elements.
AnyArgument ==
  {NotAnArray} \cup {ArrayOf(ids) : ids \in SeqsUpTo(0..Len(layers), MaxCtorArray)}

\* Input vectors: every vector of the input Layer's length, and one that is
\* too short and one that is too long.
Inputs(n) == [1..n -> InputVals] \cup {[i \in 1..k |-> 1] : k \in {n - 1, n + 1}}

Targets(m) == [1..m -> TargetVals]

ActValues(ls) ==
  [l \in 1..Len(ls) |->
     [i \in 1..Size(ls, l) |-> ls[l].neurons[i].activationValue]]

WeightsOf(cs) == [c \in 1..Len(cs) |-> cs[c].weight]
GradientsOf(cs) == [c \in 1..Len(cs) |-> cs[c].gradientAccumulator]

\* The connections whose source Neuron is in the output or a hidden Layer.
AccumulatedConns(s) ==
  {c \in DOMAIN s.conns :
     s.conns[c].source[1] \in {s.net.outputLayer} \cup Range(s.net.hiddenLayers)}

\* Source activation value * target delta of connection c.
GradientOf(s, c) ==
  NeuronAt(s, s.conns[c].source).activationValue
    * NeuronAt(s, s.conns[c].target).delta

AddGradients(sum, s) ==
  [c \in DOMAIN s.conns |->
     sum[c] + (IF c \in AccumulatedConns(s) THEN GradientOf(s, c) ELSE 0)]

\* Every number of the heap is within the magnitude bound.
Small(x) == -MaxAbs <= x /\ x <= MaxAbs

Bounded(s) ==
  /\ \A l \in 1..Len(s.layers) : \A i \in 1..Size(s.layers, l) :
       /\ Small(s.layers[l].neurons[i].activationValue)
       /\ Small(s.layers[l].neurons[i].preActivation)
       /\ Small(s.layers[l].neurons[i].delta)
  /\ \A c \in 1..Len(s.conns) :
       Small(s.conns[c].weight) /\ Small(s.conns[c].gradientAccumulator)

Record(op, arg, threw, ret, log, before) ==
  [op |-> op, arg |-> arg, threw |-> threw, ret |-> ret, log |-> log,
   before |-> before]

Init ==
  /\ activation \in ActivationNames
  /\ layers = <<>>
  /\ conns = <<>>
  /\ net = NoNetwork
  /\ twin = <<>>
  /\ gsum = <<>>
  /\ w0 = <<>>
  /\ prevAct = Undefined
  /\ calls = [ops |-> 0, nets |-> 0, batch |-> 0]
  /\ last = Record("none", <<>>, FALSE, <<>>, <<>>, <<>>)

\* new Layer(numNeurons, addBias)
CreateLayer(numNeurons, addBias) ==
  /\ layers' = Append(layers, Layer(numNeurons, addBias))
  /\ last' = Record("Layer", <<numNeurons, addBias>>, FALSE, <<>>, <<>>, <<>>)
  /\ UNCHANGED <<activation, conns, net, twin, gsum, w0, prevAct, calls>>

\* new Network(arg): the initializer's weights are any values of Weights.
Construct(arg) ==
  /\ Len(conns) + NumNewConns(layers, arg.elems) <= MaxConns
  /\ \E ws \in [1..NumNewConns(layers, arg.elems) -> Weights] :
     \E r \in {NetworkConstructor(conns, layers, arg, ws)} :
       /\ conns' = r.conns
       /\ net' = IF r.threw THEN net ELSE r.net
       /\ w0' = WeightsOf(r.conns)
       /\ gsum' = GradientsOf(r.conns)
       /\ prevAct' = Undefined
       /\ calls' = [calls EXCEPT !.nets = @ + 1]
       /\ last' = Record("new", arg, r.threw, <<>>, <<>>, conns)
       /\ UNCHANGED <<activation, layers, twin>>

\* layer.connect(target), called by the caller itself.
CallerConnect(l, t) ==
  /\ Len(conns) + Size(layers, l) * Size(layers, t) <= MaxConns
  /\ \E ws \in [1..(Size(layers, l) * Size(layers, t)) -> Weights] :
     \E cs \in {LayerConnect(conns, layers, l, t, ws)} :
       /\ conns' = cs
       /\ w0' = WeightsOf(cs)
       /\ gsum' = GradientsOf(cs)
       /\ last' = Record("connect", <<l, t>>, FALSE, <<>>, <<>>, conns)
       /\ UNCHANGED <<activation, layers, net, twin, prevAct, calls>>

\* network.activate(inputs)
Activate(inputs) ==
  /\ net.built
  /\ calls.ops < MaxOps
  /\ \E s \in {NetworkActivate(Heap, inputs)} :
        /\ Bounded(s)
        /\ layers' = s.layers
        /\ conns' = s.conns
        /\ net' = s.net
        /\ prevAct' = Def([inputs |-> inputs, output |-> s.ret])
        /\ last' = Record("activate", inputs, FALSE, s.ret, s.log,
                          IF IsDef(prevAct) /\ prevAct[1].inputs = inputs
                          THEN Def(prevAct[1].output) ELSE Undefined)
  /\ calls' = [calls EXCEPT !.ops = @ + 1]
  /\ UNCHANGED <<activation, twin, gsum, w0>>

\* network.backprop(targetOutput), after an activation, with a target of
\* the output's length.
Backprop(targetOutput) ==
  /\ net.built
  /\ calls.ops < MaxOps
  /\ net.output # <<>>
  /\ \E s \in {NetworkBackprop(Heap, targetOutput)} :
        /\ Bounded(s)
        /\ layers' = s.layers
        /\ conns' = s.conns
        /\ net' = s.net
        /\ last' = Record("backprop", targetOutput, FALSE, <<>>, s.log,
                          [acts |-> ActValues(layers), output |-> net.output])
  /\ calls' = [calls EXCEPT !.ops = @ + 1]
  /\ UNCHANGED <<activation, twin, gsum, w0, prevAct>>

\* network.accumulateGradients()
AccumulateGradients ==
  /\ net.built
  /\ calls.ops < MaxOps
  /\ \E s \in {NetworkAccumulateGradients(Heap)} :
        /\ Bounded(s)
        /\ layers' = s.layers
        /\ conns' = s.conns
        /\ net' = s.net
        /\ last' = Record("accumulateGradients", <<>>, FALSE, <<>>, s.log, <<>>)
  /\ gsum' = AddGradients(gsum, Heap)
  /\ calls' = [calls EXCEPT !.ops = @ + 1]
  /\ UNCHANGED <<activation, twin, w0, prevAct>>

\* network.updateWeights()
UpdateWeights ==
  /\ net.built
  /\ calls.ops < MaxOps
  /\ \E s \in {NetworkUpdateWeights(Heap)} :
        /\ Bounded(s)
        /\ layers' = s.layers
        /\ conns' = s.conns
        /\ net' = s.net
        /\ w0' = WeightsOf(s.conns)
        /\ last' = Record("updateWeights", <<>>, FALSE, <<>>, s.log,
                          GradientsOf(conns))
  /\ gsum' = [c \in DOMAIN conns |-> 0]
  /\ prevAct' = Undefined
  /\ calls' = [calls EXCEPT !.ops = @ + 1]
  /\ UNCHANGED <<activation, twin>>

\* --------------------------------------------- one network and its calls
NewLayer ==
  /\ calls.nets = 0
  /\ Len(layers) < MaxLayerObjs
  /\ \E n \in 1..MaxNeurons, b \in BOOLEAN : CreateLayer(n, b)

NewNetwork ==
  /\ calls.nets = 0
  /\ \E arg \in LayerArrays : Construct(arg)

CallActivate ==
  net.built /\ \E inputs \in Inputs(Size(layers, net.inputLayer)) : Activate(inputs)

CallBackprop ==
  net.built /\ \E target \in Targets(Len(net.output)) : Backprop(target)

Next ==
  \/ NewLayer
  \/ NewNetwork
  \/ CallActivate
  \/ CallBackprop
  \/ AccumulateGradients
  \/ UpdateWeights

Spec == Init /\ [][Next]_vars

\* ------------------------------------------- constructing, again and again
NewLayerAnyTime ==
  /\ Len(layers) < MaxCtorLayerObjs
  /\ \E n \in 1..MaxNeurons, b \in BOOLEAN : CreateLayer(n, b)

NewNetworkOfAnything ==
  /\ calls.nets < MaxNetworks
  /\ \E arg \in AnyArgument : Construct(arg)

ConnectByCaller ==
  \E l \in 1..Len(layers), t \in 1..Len(layers) : l # t /\ CallerConnect(l, t)

NextCtor ==
  \/ NewLayerAnyTime
  \/ NewNetworkOfAnything
  \/ ConnectByCaller

InitCtor == Init /\ activation = "identity"

SpecCtor == InitCtor /\ [][NextCtor]_vars

\* ------------------------------------------------------------ mini-batch
Plain(s) == [layers |-> s.layers, conns |-> s.conns, net |-> s.net,
             log |-> <<>>, ret |-> <<>>]

\* One example of a batch: activate, backprop, accumulateGradients on the
\* network; the twin, which started as a copy of the network, also updates
\* its weights after every example.
TrainExample(inputs, targetOutput) ==
  /\ net.built
  /\ calls.batch < MaxBatch
  /\ last.op # "updateWeights"
  /\ \E s1 \in {NetworkActivate(Heap, inputs)} :
     Bounded(s1) /\ \E s2 \in {NetworkBackprop(s1, targetOutput)} :
     Bounded(s2) /\ \E s3 \in {NetworkAccumulateGradients(s2)} :
     Bounded(s3) /\ \E u1 \in {NetworkActivate(IF calls.batch = 0 THEN Heap ELSE twin,
                                               inputs)} :
     Bounded(u1) /\ \E u2 \in {NetworkBackprop(u1, targetOutput)} :
     Bounded(u2) /\ \E u3 \in {NetworkAccumulateGradients(u2)} :
     Bounded(u3) /\ \E u \in {NetworkUpdateWeights(u3)} :
       /\ Bounded(u)
       /\ layers' = s3.layers
       /\ conns' = s3.conns
       /\ net' = s3.net
       /\ twin' = Plain(u)
       /\ gsum' = AddGradients(gsum, s2)
       /\ last' = Record("example", <<inputs, targetOutput>>, FALSE, s3.net.output,
                         <<>>, <<>>)
  /\ calls' = [calls EXCEPT !.batch = @ + 1]
  /\ UNCHANGED <<activation, w0, prevAct>>

\* The end of the batch: one updateWeights on the network.
FinishBatch ==
  /\ net.built
  /\ last.op = "example"
  /\ \E s \in {NetworkUpdateWeights(Heap)} :
       /\ Bounded(s)
       /\ layers' = s.layers
       /\ conns' = s.conns
       /\ net' = s.net
       /\ last' = Record("updateWeights", <<>>, FALSE, <<>>, s.log,
                         GradientsOf(conns))
  /\ UNCHANGED <<activation, twin, gsum, w0, prevAct, calls>>

Example ==
  /\ net.built
  /\ \E inputs \in [1..Size(layers, net.inputLayer) -> InputVals],
        target \in Targets(Size(layers, net.outputLayer)) :
       TrainExample(inputs, target)

NextBatch ==
  \/ NewLayer
  \/ NewNetwork
  \/ Example
  \/ FinishBatch

SpecBatch == Init /\ [][NextBatch]_vars

\* ---------------------------------------------------------------- claims
Distinct(q) == \A i, j \in 1..Len(q) : i # j => q[i] # q[j]

\* C1: a construction whose argument is not an array, is the empty array or
\* holds an element that is not a Layer throws, and the heap holds exactly
\* the connections it held before the call.
InvalidLayersThrowBeforeConnecting ==
  last.op = "new" /\ ~ValidLayers(last.arg)
    => last.threw /\ conns = last.before

\* A construction has thrown on an array in which two Layers that would have
\* been connected stand side by side.
ThrewOnArrayWithAdjacentLayers ==
  /\ last.op = "new"
  /\ last.threw
  /\ NumNewConns(layers, last.arg.elems) > 0

\* C7: after the construction of a Network of pairwise different Layers there
\* is exactly one connection per Neuron pair of consecutive Layers and none
\* between Layers of the Network that are not consecutive, whatever the
\* caller did with the Layers before.
NetworkDoesNotReconnect ==
  last.op = "new" /\ ~last.threw /\ Distinct(net.allLayers)
    => LET all == net.allLayers
       IN /\ \A i \in 1..(Len(all) - 1) :
               \A a \in 1..Size(layers, all[i]), b \in 1..Size(layers, all[i + 1]) :
                 Cardinality({c \in DOMAIN conns :
                                /\ conns[c].source = <<all[i], a>>
                                /\ conns[c].target = <<all[i + 1], b>>}) = 1
          /\ \A c \in DOMAIN conns :
               conns[c].source[1] \in Range(all) /\ conns[c].target[1] \in Range(all)
                 => \E i \in 1..(Len(all) - 1) :
                      all[i] = conns[c].source[1] /\ all[i + 1] = conns[c].target[1]

\* The entries of a call log that are calls of the named method.
CallsOf(log, name) == SelectSeq(log, LAMBDA e : e.call = name)

\* How often the named method was called on Layer l.
TimesCalled(log, name, l) ==
  Cardinality({k \in 1..Len(log) : log[k].call = name /\ log[k].layer = l})

LayersOf(log) == [k \in 1..Len(log) |-> log[k].layer]

Reverse(q) == [k \in 1..Len(q) |-> q[Len(q) + 1 - k]]

\* C2: an activate call whose inputs are not as many as the input Layer has
\* Neurons fails.
WrongLengthInputsRejected ==
  last.op = "activate" /\ Len(last.arg) # Size(layers, net.inputLayer)
    => last.threw

\* C3: one updateWeights call on a Network of pairwise different Layers
\* applies the update to every connection exactly once and leaves every
\* gradient accumulator at 0.
UpdateReachesEveryConnection ==
  last.op = "updateWeights" /\ Distinct(net.allLayers)
    => \A c \in DOMAIN conns :
         /\ Cardinality({k \in 1..Len(last.log) :
                           /\ last.log[k].call = "Connection.applyUpdate"
                           /\ last.log[k].arg = <<c>>}) = 1
         /\ conns[c].gradientAccumulator = 0

\* C4: activate returns a vector as long as the output Layer, the Network
\* keeps that vector as its output, and the backprop that follows reads it.
ActivateReturnsAndStoresOutput ==
  /\ last.op = "activate"
       => /\ Len(last.ret) = Size(layers, net.outputLayer)
          /\ net.output = last.ret
  /\ last.op = "backprop" /\ IsDef(prevAct)
       => last.before.output = prevAct[1].output

\* An activation of a Network with a hidden Layer and two output Neurons
\* has returned.
ActivatedTwoOutputs ==
  /\ last.op = "activate"
  /\ Len(net.hiddenLayers) >= 1
  /\ Len(last.ret) = 2
  /\ \E j \in 1..2 : last.ret[j] # 0

\* C8 as stated: activate called again with the same inputs, the weights not
\* updated in between, returns what it returned before.
RepeatedActivateSameOutput ==
  last.op = "activate" /\ IsDef(last.before)
    => last.ret = last.before[1]

\* C8: the same, for a Network whose Layers are pairwise different.
RepeatedActivateSameOutputFeedForward ==
  last.op = "activate" /\ IsDef(last.before) /\ Distinct(net.allLayers)
    => last.ret = last.before[1]

\* A Network of different Layers was activated a second time with the same
\* inputs after a backprop and an accumulateGradients that left their marks.
ActivatedAgainAfterTraining ==
  /\ last.op = "activate"
  /\ IsDef(last.before)
  /\ Distinct(net.allLayers)
  /\ \E j \in 1..Len(last.ret) : last.ret[j] # 0
  /\ \E l \in 1..Len(layers) : \E i \in 1..Size(layers, l) :
       layers[l].neurons[i].delta # 0
  /\ \E c \in DOMAIN conns : conns[c].gradientAccumulator # 0

\* What backprop does on every Network: the error first, then the output
\* Layer with the deltas output - target, then the hidden Layers from the
\* last to the first; the output and the activation values stay.
BackpropSteps ==
  LET hidden == net.hiddenLayers
      lcalls == CallsOf(last.log, "Layer.backprop")
      delta == [j \in 1..Len(last.before.output) |->
                  last.before.output[j] - last.arg[j]]
  IN /\ last.log[1].call = "errorFn"
     /\ net.error = meanSquared(last.arg, last.before.output)
     /\ LayersOf(lcalls) = <<net.outputLayer>> \o Reverse(hidden)
     /\ lcalls[1].arg = Def(delta)
     /\ \A k \in 2..Len(lcalls) : lcalls[k].arg = Undefined
     /\ net.output = last.before.output
     /\ ActValues(layers) = last.before.acts

\* The deltas a hidden Layer computed are those of its successor's final
\* deltas, and the input Layer had no backprop call.
BackpropFromFinalDeltas ==
  /\ TimesCalled(last.log, "Layer.backprop", net.inputLayer) = 0
  /\ \A k \in 1..Len(net.hiddenLayers) :
       LET l == net.hiddenLayers[k]
       IN \A i \in 1..Size(layers, l) :
            LET out == Outgoing(conns, l, i)
            IN layers[l].neurons[i].delta =
                 SumOver([c \in out |->
                            conns[c].weight * NeuronAt(Heap, conns[c].target).delta],
                         out)
                   * ActivationDerivative(activation,
                                          layers[l].neurons[i].preActivation)

EveryLayerActivatedOnce ==
  last.op = "activate" /\ Distinct(net.allLayers)
    => LayersOf(CallsOf(last.log, "Layer.activate")) = net.allLayers

\* The Layers accumulateGradients and updateWeights walk over, in order.
WalkedLayers == <<net.outputLayer>> \o Reverse(net.hiddenLayers)

AccumulatorsAreSums ==
  \A c \in AccumulatedConns(Heap) : conns[c].gradientAccumulator = gsum[c]

\* C5 as stated: after the cycles of a batch the weights are those the batch
\* began with, and every accumulated connection's accumulator is the sum of
\* source activation value * target delta over the cycles.
CyclesKeepWeightsAndSumGradients ==
  last.op = "example"
    => WeightsOf(conns) = w0 /\ AccumulatorsAreSums

\* C5: the weights on every Network; the sums when no Layer is both the
\* output Layer and a hidden Layer, or a hidden Layer twice.
CyclesKeepWeightsAndSumGradientsOnce ==
  last.op = "example"
    => /\ WeightsOf(conns) = w0
       /\ Distinct(WalkedLayers) => AccumulatorsAreSums

\* Two cycles have added up to a gradient sum that one cycle cannot give.
TwoCyclesAccumulated ==
  /\ last.op = "example"
  /\ calls.batch = 2
  /\ Distinct(WalkedLayers)
  /\ \E c \in AccumulatedConns(Heap) :
       gsum[c] # 0 /\ conns[c].gradientAccumulator \notin {-1, 0, 1}

\* C6 as stated, on a Network of pairwise different Layers: the weights
\* after the batch's one updateWeights are the weights of the twin, which
\* updated after every example.
BatchEqualsPerExample ==
  last.op = "updateWeights" /\ Distinct(net.allLayers)
    => WeightsOf(conns) = WeightsOf(twin.conns)

\* C6: they are the twin's after a batch of one example; after any batch,
\* when no Layer is walked twice, every accumulated connection's weight is
\* its weight before the batch less the learning rate times the sum of the
\* examples' gradients, each taken at the weights before the batch.
BatchIsOneStepOfSummedGradients ==
  last.op = "updateWeights"
    => /\ calls.batch = 1 => WeightsOf(conns) = WeightsOf(twin.conns)
       /\ Distinct(WalkedLayers)
            => \A c \in AccumulatedConns(Heap) :
                 conns[c].weight = w0[c] - LearningRate * gsum[c]

\* A batch of two examples with a gradient sum other than 0 was applied to a
\* Network of different Layers, and the twin has other weights.
BatchOfTwoApplied ==
  /\ last.op = "updateWeights"
  /\ calls.batch = 2
  /\ Distinct(net.allLayers)
  /\ \E c \in AccumulatedConns(Heap) : gsum[c] # 0
  /\ WeightsOf(conns) # WeightsOf(twin.conns)
====
